---- MODULE Spec2Model ----
(***************************************************************************)
(* Model of package migrate (src/migrate.go): versioned migrations kept in *)
(* a dedicated MongoDB collection (the ledger).                            *)
(*                                                                         *)
(* The ledger is the sequence of documents of the migrations collection in *)
(* "_id" (insertion) order.  A Find followed by cursor.Decode is modelled  *)
(* the way migrate.go reads it: ErrNoDocuments when nothing matches, else  *)
(* the first document in the requested order.  The Timestamp field is      *)
(* written and never read, so it is not part of a record here.             *)
(*                                                                         *)
(* Up and Down run as a sequence of steps (loop head with its Applied /    *)
(* version test, the migration's action, SetVersion), one per blocking     *)
(* round trip, each runner driven by its own program counter.              *)
(***************************************************************************)
EXTENDS Integers, Sequences, FiniteSets, TLC

\* ---------------------------------------------------------------- bounds
MaxVersion == 2
MaxNil == 1
MaxCalls == 3
MaxFaults == 1
MaxSetVersion == 1

\* ------------------------------------------------------------- constants
AllAvailable == -1

Runners == {1, 2}
Versions == 0 .. MaxVersion
NArgs == AllAvailable .. MaxVersion

NoDescription == ""
DescText == <<"zero", "one", "two", "three", "four", "five", "six">>
DescOf(v) == DescText[v + 1]
SetDescriptions == {"forced"}

\* a migration definition; Up / Down say whether the function is non-nil
Migration == [Version : Versions, Description : STRING, Up : BOOLEAN, Down : BOOLEAN]

versionRecord(version, description) == [Version |-> version, Description |-> description]

\* ------------------------------------------------------------- catalogs
RECURSIVE SeqsUpTo(_, _)
SeqsUpTo(S, k) ==
  IF k = 0 THEN {<<>>}
  ELSE LET shorter == SeqsUpTo(S, k - 1)
       IN  shorter \cup {Append(s, x) : s \in {t \in shorter : Len(t) = k - 1}, x \in S}

Definitions ==
  {[Version |-> v, Description |-> DescOf(v), Up |-> u, Down |-> d] :
     v \in Versions, u \in BOOLEAN, d \in BOOLEAN}

UniqueVersions(cat) ==
  \A a, b \in 1 .. Len(cat) : a # b => cat[a].Version # cat[b].Version

\* number of nil Up / Down functions in a catalog
NilCount(cat) ==
  Cardinality({k \in 1 .. Len(cat) : ~cat[k].Up}) + Cardinality({k \in 1 .. Len(cat) : ~cat[k].Down})

\* the catalogs a caller may register: any order, versions unique
Catalogs ==
  {cat \in SeqsUpTo(Definitions, MaxVersion + 1) : UniqueVersions(cat) /\ NilCount(cat) <= MaxNil}

\* migrationSort: ascending by version (insertion sort)
RECURSIVE InsertSorted(_, _)
InsertSorted(s, m) ==
  IF s = <<>> THEN <<m>>
  ELSE IF m.Version < Head(s).Version THEN <<m>> \o s
       ELSE <<Head(s)>> \o InsertSorted(Tail(s), m)

RECURSIVE migrationSort(_)
migrationSort(cat) ==
  IF cat = <<>> THEN <<>>
  ELSE InsertSorted(migrationSort(SubSeq(cat, 1, Len(cat) - 1)), cat[Len(cat)])

IsSorted(cat) ==
  \A a, b \in 1 .. Len(cat) : a < b => cat[a].Version < cat[b].Version

\* ---------------------------------------------------------------- store
StoreOutcomes == {"ok", "listErr", "createErr", "findErr", "decodeErr"}

\* createCollectionIfNotExist: err and whether the collection exists after
createCollectionIfNotExist(exist, outcome) ==
  IF outcome = "listErr" THEN [err |-> TRUE, exist |-> exist]
  ELSE IF exist THEN [err |-> FALSE, exist |-> TRUE]
  ELSE IF outcome = "createErr" THEN [err |-> TRUE, exist |-> FALSE]
  ELSE [err |-> FALSE, exist |-> TRUE]

\* variant: the document holding the highest version
LatestRecord_Highest(led) ==
  CHOOSE rec \in {led[k] : k \in 1 .. Len(led)} :
    \A k \in 1 .. Len(led) : led[k].Version <= rec.Version

\* the document a Find sorted by _id descending decodes: the latest one
LatestRecord(led) == led[Len(led)]

\* variant: a version above the latest document's does not match
Matching_UpToCurrent(led, version) ==
  {k \in 1 .. Len(led) : led[k].Version = version /\ version <= led[Len(led)].Version}

\* variant: only the oldest document is looked at
Matching_First(led, version) ==
  {k \in 1 .. Len(led) : k = 1 /\ led[k].Version = version}

\* variant: only the latest document is looked at
Matching_Latest(led, version) ==
  {k \in 1 .. Len(led) : k = Len(led) /\ led[k].Version = version}

\* the documents a Find with filter {"version": version} matches
Matching(led, version) == {k \in 1 .. Len(led) : led[k].Version = version}

\* which storage outcomes can happen for a read that matches `hits` documents
OutcomePossible(outcome, exist, hits) ==
  /\ outcome = "createErr" => ~exist
  /\ outcome = "decodeErr" => hits

\* variant: ErrNoDocuments is returned like any other error
VersionResult_NoDocsErr(led, exist, outcome) ==
  LET cc == createCollectionIfNotExist(exist, outcome) IN
  IF cc.err \/ outcome \in {"findErr", "decodeErr"} \/ led = <<>>
  THEN [Version |-> 0, Description |-> NoDescription, err |-> TRUE, exist |-> cc.exist]
  ELSE [Version |-> LatestRecord(led).Version, Description |-> LatestRecord(led).Description,
        err |-> FALSE, exist |-> cc.exist]

\* Version(): (version, description, err) and the collection's existence
VersionResult(led, exist, outcome) ==
  LET cc == createCollectionIfNotExist(exist, outcome) IN
  IF cc.err THEN [Version |-> 0, Description |-> NoDescription, err |-> TRUE, exist |-> cc.exist]
  ELSE IF outcome = "findErr"
       THEN [Version |-> 0, Description |-> NoDescription, err |-> TRUE, exist |-> cc.exist]
  ELSE IF led = <<>>
       THEN [Version |-> 0, Description |-> NoDescription, err |-> FALSE, exist |-> cc.exist]
  ELSE IF outcome = "decodeErr"
       THEN [Version |-> 0, Description |-> NoDescription, err |-> TRUE, exist |-> cc.exist]
  ELSE [Version |-> LatestRecord(led).Version, Description |-> LatestRecord(led).Description,
        err |-> FALSE, exist |-> cc.exist]

\* variant: a failed lookup answers true
AppliedResult_TrueOnError(led, exist, version, outcome) ==
  LET cc == createCollectionIfNotExist(exist, outcome) IN
  IF cc.err \/ outcome \in {"findErr", "decodeErr"}
  THEN [applied |-> TRUE, exist |-> cc.exist]
  ELSE [applied |-> Matching(led, version) # {}, exist |-> cc.exist]

\* Applied(version): the boolean and the collection's existence
AppliedResult(led, exist, version, outcome) ==
  LET cc == createCollectionIfNotExist(exist, outcome) IN
  IF cc.err THEN [applied |-> FALSE, exist |-> cc.exist]
  ELSE IF outcome = "findErr" THEN [applied |-> FALSE, exist |-> cc.exist]
  ELSE IF Matching(led, version) = {} THEN [applied |-> FALSE, exist |-> cc.exist]
  ELSE IF outcome = "decodeErr" THEN [applied |-> FALSE, exist |-> cc.exist]
  ELSE [applied |-> TRUE, exist |-> cc.exist]

\* variant: the new document replaces the latest one
InsertOne_Overwrite(led, rec) ==
  IF led = <<>> THEN <<rec>> ELSE [led EXCEPT ![Len(led)] = rec]

\* InsertOne of a versionRecord: the new document gets the greatest _id
InsertOne(led, rec) == Append(led, rec)

\* ------------------------------------------------------------ the runner
\* variant: only a negative n means "all"
EffectiveN_ZeroIsNone(n, len) == IF n < 0 \/ n > len THEN len ELSE n

\* variant: the requested count is ignored
EffectiveN_All(n, len) == len

\* effective number of steps of Up(n) / Down(n)
EffectiveN(n, len) == IF n <= 0 \/ n > len THEN len ELSE n

\* variant: the ledger is not consulted
UpSkip_IgnoreApplied(applied, migration) == ~migration.Up

\* Up's test to pass over a definition
UpSkip(applied, migration) == applied \/ ~migration.Up

\* variant: a definition at the current version is passed over too
DownSkip_AtCurrent(migration, currentVersion) ==
  migration.Version >= currentVersion \/ ~migration.Down

\* variant: a nil Down is not checked
DownSkip_VersionOnly(migration, currentVersion) == migration.Version > currentVersion

\* Down's test to pass over a definition
DownSkip(migration, currentVersion) ==
  migration.Version > currentVersion \/ ~migration.Down

\* variant: the action's error is dropped
ActionAborts_Never(actionErr) == FALSE

\* "if err := migration.Up(m.db); err != nil { return err }" (and Down's twin)
ActionAborts(actionErr) == actionErr

\* variant: the description is left out of the record
ownRecord_NoDescription(migration) == versionRecord(migration.Version, NoDescription)

\* the record Up writes after a forward action: the definition's own
ownRecord(migration) == versionRecord(migration.Version, migration.Description)

\* variant: the record after a revert is always the version-0 record
prevMigration_Zero(cat, i) == [Version |-> 0, Description |-> NoDescription]

\* variant: the reverted entry itself is recorded
prevMigration_Own(cat, i) ==
  [Version |-> cat[i + 1].Version, Description |-> cat[i + 1].Description]

\* the record Down writes after reverting the entry at (0-based) position i
prevMigration(cat, i) ==
  IF i = 0 THEN [Version |-> 0, Description |-> NoDescription]
  ELSE [Version |-> cat[i].Version, Description |-> cat[i].Description]

VARIABLES
  ledger,      \* documents of the migrations collection, in _id order
  collExist,   \* whether the migrations collection exists
  migrations,  \* migrations[r]: runner r's m.migrations
  pc,          \* pc[r]: where runner r is
  frame,       \* frame[r]: locals n, i, p, currentVersion of the running call
  call,        \* call[r]: the running (or last finished) call of r, observed
  prev,        \* prev[r]: the call of r before call[r]
  calls,       \* number of public calls started
  faults,      \* number of failures injected
  setvs        \* number of direct SetVersion calls

vars == <<ledger, collExist, migrations, pc, frame, call, prev, calls, faults, setvs>>

NoFrame == [n |-> 0, i |-> 0, p |-> 0, currentVersion |-> 0]

NoCall ==
  [op |-> "none", n |-> 0, events |-> <<>>, done |-> TRUE, err |-> FALSE, fault |-> FALSE,
   all |-> FALSE, len0 |-> 0, ver0 |-> 0, sorted0 |-> FALSE,
   retV |-> 0, retD |-> NoDescription, retB |-> FALSE,
   seen |-> 0, lookupFailed |-> {}]

\* the version the latest document holds (0 for an empty ledger)
TrueVersion(led) == IF led = <<>> THEN 0 ELSE LatestRecord(led).Version

NewCall(r, op, n) ==
  [NoCall EXCEPT !.op = op, !.n = n, !.done = FALSE,
                 !.len0 = Len(ledger), !.ver0 = TrueVersion(ledger),
                 !.sorted0 = IsSorted(migrations[r])]

\* what a later call still knows of the call before it
Summary(c) ==
  [op |-> c.op, all |-> c.all, err |-> c.err, fault |-> c.fault, len0 |-> c.len0,
   acts |-> Cardinality({k \in 1 .. Len(c.events) : c.events[k].kind # "rec"}),
   failV |-> IF c.events # <<>> /\ c.events[Len(c.events)].kind # "rec"
                  /\ ~c.events[Len(c.events)].ok
             THEN c.events[Len(c.events)].Version ELSE -1]

Event(kind, idx, version, description, ok) ==
  [kind |-> kind, idx |-> idx, Version |-> version, Description |-> description, ok |-> ok]

Init ==
  /\ ledger = <<>>
  /\ collExist = FALSE
  /\ \E cat \in Catalogs : migrations = [r \in Runners |-> cat]
  /\ pc = [r \in Runners |-> "idle"]
  /\ frame = [r \in Runners |-> NoFrame]
  /\ call = [r \in Runners |-> NoCall]
  /\ prev = [r \in Runners |-> Summary(NoCall)]
  /\ calls = 0
  /\ faults = 0
  /\ setvs = 0

\* a storage or action outcome other than success uses up the fault budget
FaultOK(failed) == failed => faults < MaxFaults
CountFault(failed) == faults' = IF failed THEN faults + 1 ELSE faults

Begin(r) ==
  /\ pc[r] = "idle"
  /\ calls < MaxCalls
  /\ calls' = calls + 1
  /\ prev' = [prev EXCEPT ![r] = Summary(call[r])]

\* Version()
VersionCall(r) ==
  /\ Begin(r)
  /\ \E outcome \in StoreOutcomes :
       /\ OutcomePossible(outcome, collExist, ledger # <<>>)
       /\ FaultOK(outcome # "ok")
       /\ CountFault(outcome # "ok")
       /\ LET res == VersionResult(ledger, collExist, outcome) IN
          /\ collExist' = res.exist
          /\ call' = [call EXCEPT ![r] =
                        [NewCall(r, "Version", 0) EXCEPT
                           !.done = TRUE, !.err = res.err, !.fault = (outcome # "ok"),
                           !.retV = res.Version, !.retD = res.Description]]
  /\ UNCHANGED <<ledger, migrations, pc, frame, setvs>>

\* Applied(version)
AppliedCall(r) ==
  /\ Begin(r)
  /\ \E version \in Versions, outcome \in StoreOutcomes :
       /\ OutcomePossible(outcome, collExist, Matching(ledger, version) # {})
       /\ FaultOK(outcome # "ok")
       /\ CountFault(outcome # "ok")
       /\ LET res == AppliedResult(ledger, collExist, version, outcome) IN
          /\ collExist' = res.exist
          /\ call' = [call EXCEPT ![r] =
                        [NewCall(r, "Applied", version) EXCEPT
                           !.done = TRUE, !.fault = (outcome # "ok"),
                           !.retB = res.applied]]
  /\ UNCHANGED <<ledger, migrations, pc, frame, setvs>>

\* SetVersion(version, description), called directly
SetVersionCall(r) ==
  /\ Begin(r)
  /\ setvs < MaxSetVersion
  /\ setvs' = setvs + 1
  /\ \E version \in Versions, description \in SetDescriptions, insertErr \in BOOLEAN :
       /\ FaultOK(insertErr)
       /\ CountFault(insertErr)
       /\ ledger' = IF insertErr THEN ledger
                    ELSE InsertOne(ledger, versionRecord(version, description))
       /\ collExist' = (collExist \/ ~insertErr)
       /\ call' = [call EXCEPT ![r] =
                     [NewCall(r, "SetVersion", version) EXCEPT
                        !.done = TRUE, !.err = insertErr, !.fault = insertErr,
                        !.retD = description,
                        !.events = <<Event("rec", 0, version, description, ~insertErr)>>]]
  /\ UNCHANGED <<migrations, pc, frame>>

Return(r, err) ==
  /\ pc' = [pc EXCEPT ![r] = "idle"]
  /\ frame' = [frame EXCEPT ![r] = NoFrame]

\* Up(n): lines 148-151, the step count, then the walk over `sorted`
UpBegin(r, sorted) ==
  /\ Begin(r)
  /\ \E n \in NArgs :
       /\ call' = [call EXCEPT ![r] =
                     [NewCall(r, "Up", n) EXCEPT
                        !.all = (EffectiveN(n, Len(migrations[r])) = Len(migrations[r]))]]
       /\ frame' = [frame EXCEPT ![r] =
                      [n |-> EffectiveN(n, Len(migrations[r])), i |-> 0, p |-> 0,
                       currentVersion |-> 0]]
  /\ migrations' = [migrations EXCEPT ![r] = sorted]
  /\ pc' = [pc EXCEPT ![r] = "up_loop"]
  /\ UNCHANGED <<ledger, collExist, faults, setvs>>

\* variant: Up without the call of migrationSort
UpCall_NoSort(r) == UpBegin(r, migrations[r])

\* Up(n): line 151 sorts m.migrations in place
UpCall(r) == UpBegin(r, migrationSort(migrations[r]))

\* Up: the loop head and the test of lines 153-158
UpLoop(r) ==
  /\ pc[r] = "up_loop"
  /\ LET f == frame[r]
         cat == migrations[r] IN
     IF ~(f.i < Len(cat) /\ f.p < f.n)
     THEN /\ Return(r, FALSE)
          /\ call' = [call EXCEPT ![r].done = TRUE]
          /\ UNCHANGED <<ledger, collExist, faults>>
     ELSE LET migration == cat[f.i + 1] IN
          \E outcome \in StoreOutcomes :
            /\ OutcomePossible(outcome, collExist, Matching(ledger, migration.Version) # {})
            /\ FaultOK(outcome # "ok")
            /\ CountFault(outcome # "ok")
            /\ LET res == AppliedResult(ledger, collExist, migration.Version, outcome) IN
               /\ collExist' = res.exist
               /\ call' = [call EXCEPT
                             ![r].fault = @ \/ (outcome # "ok"),
                             ![r].seen = Len(ledger),
                             ![r].lookupFailed =
                                IF outcome # "ok" THEN @ \cup {migration.Version} ELSE @]
               /\ IF UpSkip(res.applied, migration)
                  THEN /\ frame' = [frame EXCEPT ![r].i = f.i + 1]
                       /\ pc' = pc
                  ELSE /\ frame' = [frame EXCEPT ![r].p = f.p + 1]
                       /\ pc' = [pc EXCEPT ![r] = "up_action"]
            /\ UNCHANGED ledger
  /\ UNCHANGED <<migrations, prev, calls, setvs>>

\* Up: migration.Up(m.db), lines 159-161
UpAction(r) ==
  /\ pc[r] = "up_action"
  /\ LET f == frame[r]
         migration == migrations[r][f.i + 1] IN
     \E actionErr \in BOOLEAN :
       /\ FaultOK(actionErr)
       /\ CountFault(actionErr)
       /\ call' = [call EXCEPT
                     ![r].events = Append(@, Event("up", f.i, migration.Version,
                                                   migration.Description, ~actionErr)),
                     ![r].fault = @ \/ actionErr,
                     ![r].err = ActionAborts(actionErr),
                     ![r].done = ActionAborts(actionErr)]
       /\ IF ActionAborts(actionErr) THEN Return(r, TRUE)
          ELSE /\ pc' = [pc EXCEPT ![r] = "up_record"]
               /\ frame' = frame
  /\ UNCHANGED <<ledger, collExist, migrations, prev, calls, setvs>>

\* Up: SetVersion(migration.Version, migration.Description), lines 165-168
UpRecord(r) ==
  /\ pc[r] = "up_record"
  /\ LET f == frame[r]
         migration == migrations[r][f.i + 1] IN
     \E insertErr \in BOOLEAN :
       /\ FaultOK(insertErr)
       /\ CountFault(insertErr)
       /\ ledger' = IF insertErr THEN ledger
                    ELSE InsertOne(ledger, ownRecord(migration))
       /\ collExist' = (collExist \/ ~insertErr)
       /\ call' = [call EXCEPT
                     ![r].events = Append(@, Event("rec", f.i, ownRecord(migration).Version,
                                                   ownRecord(migration).Description,
                                                   ~insertErr)),
                     ![r].fault = @ \/ insertErr,
                     ![r].err = insertErr,
                     ![r].done = insertErr]
       /\ IF insertErr THEN Return(r, TRUE)
          ELSE /\ pc' = [pc EXCEPT ![r] = "up_loop"]
               /\ frame' = [frame EXCEPT ![r].i = f.i + 1]
  /\ UNCHANGED <<migrations, prev, calls, setvs>>

\* Down(n): lines 176-183, the current version, the step count and the sort
DownCall(r) ==
  /\ Begin(r)
  /\ \E n \in NArgs, outcome \in StoreOutcomes :
       /\ OutcomePossible(outcome, collExist, ledger # <<>>)
       /\ FaultOK(outcome # "ok")
       /\ CountFault(outcome # "ok")
       /\ LET res == VersionResult(ledger, collExist, outcome)
              c == [NewCall(r, "Down", n) EXCEPT
                      !.all = (EffectiveN(n, Len(migrations[r])) = Len(migrations[r])),
                      !.fault = (outcome # "ok"), !.retV = res.Version]
          IN
          /\ collExist' = res.exist
          /\ IF res.err
             THEN /\ call' = [call EXCEPT ![r] = [c EXCEPT !.err = TRUE, !.done = TRUE]]
                  /\ UNCHANGED <<pc, frame, migrations>>
             ELSE /\ call' = [call EXCEPT ![r] = c]
                  /\ frame' = [frame EXCEPT ![r] =
                                 [n |-> EffectiveN(n, Len(migrations[r])),
                                  i |-> Len(migrations[r]) - 1, p |-> 0,
                                  currentVersion |-> res.Version]]
                  /\ migrations' = [migrations EXCEPT ![r] = migrationSort(migrations[r])]
                  /\ pc' = [pc EXCEPT ![r] = "down_loop"]
  /\ UNCHANGED <<ledger, setvs>>

\* Down: the loop head and the test of lines 185-190
DownLoop(r) ==
  /\ pc[r] = "down_loop"
  /\ LET f == frame[r]
         cat == migrations[r] IN
     IF ~(f.i >= 0 /\ f.p < f.n)
     THEN /\ Return(r, FALSE)
          /\ call' = [call EXCEPT ![r].done = TRUE]
     ELSE LET migration == cat[f.i + 1] IN
          /\ call' = call
          /\ IF DownSkip(migration, f.currentVersion)
             THEN /\ frame' = [frame EXCEPT ![r].i = f.i - 1]
                  /\ pc' = pc
             ELSE /\ frame' = [frame EXCEPT ![r].p = f.p + 1]
                  /\ pc' = [pc EXCEPT ![r] = "down_action"]
  /\ UNCHANGED <<ledger, collExist, migrations, prev, calls, faults, setvs>>

\* Down: migration.Down(m.db), lines 191-193
DownAction(r) ==
  /\ pc[r] = "down_action"
  /\ LET f == frame[r]
         migration == migrations[r][f.i + 1] IN
     \E actionErr \in BOOLEAN :
       /\ FaultOK(actionErr)
       /\ CountFault(actionErr)
       /\ call' = [call EXCEPT
                     ![r].events = Append(@, Event("down", f.i, migration.Version,
                                                   migration.Description, ~actionErr)),
                     ![r].fault = @ \/ actionErr,
                     ![r].err = ActionAborts(actionErr),
                     ![r].done = ActionAborts(actionErr)]
       /\ IF ActionAborts(actionErr) THEN Return(r, TRUE)
          ELSE /\ pc' = [pc EXCEPT ![r] = "down_record"]
               /\ frame' = frame
  /\ UNCHANGED <<ledger, collExist, migrations, prev, calls, setvs>>

\* Down: SetVersion(prevMigration.Version, prevMigration.Description), lines 195-206
DownRecord(r) ==
  /\ pc[r] = "down_record"
  /\ LET f == frame[r]
         pm == prevMigration(migrations[r], f.i) IN
     \E insertErr \in BOOLEAN :
       /\ FaultOK(insertErr)
       /\ CountFault(insertErr)
       /\ ledger' = IF insertErr THEN ledger
                    ELSE InsertOne(ledger, versionRecord(pm.Version, pm.Description))
       /\ collExist' = (collExist \/ ~insertErr)
       /\ call' = [call EXCEPT
                     ![r].events = Append(@, Event("rec", f.i, pm.Version,
                                                   pm.Description, ~insertErr)),
                     ![r].fault = @ \/ insertErr,
                     ![r].err = insertErr,
                     ![r].done = insertErr]
       /\ IF insertErr THEN Return(r, TRUE)
          ELSE /\ pc' = [pc EXCEPT ![r] = "down_loop"]
               /\ frame' = [frame EXCEPT ![r].i = f.i - 1]
  /\ UNCHANGED <<migrations, prev, calls, setvs>>

Step(r) ==
  \/ VersionCall(r)
  \/ AppliedCall(r)
  \/ SetVersionCall(r)
  \/ UpCall(r)
  \/ UpLoop(r)
  \/ UpAction(r)
  \/ UpRecord(r)
  \/ DownCall(r)
  \/ DownLoop(r)
  \/ DownAction(r)
  \/ DownRecord(r)

Next == \E r \in {1} : Step(r)

Spec == Init /\ [][Next]_vars

\* two runners on one ledger, each calling Up once, with no
\* serialization between them
UpStep(r) ==
  \/ (call[r].op = "none" /\ UpCall(r))
  \/ UpLoop(r)
  \/ UpAction(r)
  \/ UpRecord(r)

NextConc == \E r \in Runners : UpStep(r)

SpecConc == Init /\ [][NextConc]_vars

\* ------------------------------------------------------------ properties
\* what the ledger itself says, read without the store's operators
VersionAt(k) == IF k = 0 THEN 0 ELSE ledger[k].Version
DescriptionAt(k) == IF k = 0 THEN NoDescription ELSE ledger[k].Description
Holds(version, upto) == \E k \in 1 .. upto : ledger[k].Version = version

IsAct(e) == e.kind \in {"up", "down"}
ActIdx(c) == {k \in 1 .. Len(c.events) : IsAct(c.events[k])}
OkRecIdx(c) == {k \in 1 .. Len(c.events) : c.events[k].kind = "rec" /\ c.events[k].ok}
NumActs(c) == Cardinality(ActIdx(c))
NumRecs(c) == Cardinality(OkRecIdx(c))
\* position in the ledger of the record that event k of call c wrote
RecPos(c, k) == c.len0 + Cardinality({j \in OkRecIdx(c) : j <= k})

Complete(cat) == \A k \in 1 .. Len(cat) : cat[k].Up /\ cat[k].Down
AllUp(cat) == \A k \in 1 .. Len(cat) : cat[k].Up

\* C1: after an Up(ALL) in which nothing failed, a second Up(ALL) in which
\* nothing fails invokes no forward action and appends no record.
C1_UpAllTwice ==
  \A r \in Runners :
    ( /\ call[r].op = "Up" /\ call[r].all /\ ~call[r].fault
      /\ prev[r].op = "Up" /\ prev[r].all /\ ~prev[r].fault
      /\ UniqueVersions(migrations[r]) )
    => /\ call[r].events = <<>>
       /\ Len(ledger) = call[r].len0

C1_Witness ==
  \E r \in Runners :
    /\ call[r].op = "Up" /\ call[r].all /\ ~call[r].fault /\ call[r].done
    /\ prev[r].op = "Up" /\ prev[r].all /\ ~prev[r].fault
    /\ prev[r].acts >= 2
    /\ Len(ledger) >= 2

\* C2 (as claimed): on a fully applied catalog of three definitions that all
\* have both actions, Down(ALL) then Up(ALL) invokes 3 backward and then 3
\* forward actions and leaves the current version at the highest version.
C2_DownThenUp ==
  \A r \in Runners :
    LET cat == migrations[r] IN
    ( /\ Len(cat) = 3 /\ Complete(cat) /\ IsSorted(cat)
      /\ call[r].op = "Up" /\ call[r].all /\ call[r].done /\ ~call[r].fault
      /\ prev[r].op = "Down" /\ prev[r].all /\ ~prev[r].fault
      /\ prev[r].len0 = 3
      /\ \A k \in 1 .. 3 : ledger[k] = versionRecord(cat[k].Version, cat[k].Description) )
    => /\ prev[r].acts = 3
       /\ NumActs(call[r]) = 3
       /\ VersionAt(Len(ledger)) = cat[3].Version

\* the record Down is to write after reverting the entry at 0-based position i
PredecessorOK(c, cat, k) ==
  LET e == c.events[k]
      i == e.idx IN
  /\ k > 1
  /\ c.events[k - 1].kind = "down" /\ c.events[k - 1].ok /\ c.events[k - 1].idx = i
  /\ c.events[k - 1].Version = cat[i + 1].Version
  /\ e.Version = (IF i = 0 THEN 0 ELSE cat[i].Version)
  /\ e.Description = (IF i = 0 THEN NoDescription ELSE cat[i].Description)
  /\ ledger[RecPos(c, k)] = versionRecord(e.Version, e.Description)

\* Down(1) on a catalog whose highest entry is the current version
DownOneOK(c, cat) ==
  ( /\ c.done /\ ~c.fault /\ c.n = 1 /\ Len(cat) >= 1
    /\ cat[Len(cat)].Down
    /\ c.len0 > 0 /\ VersionAt(c.len0) = cat[Len(cat)].Version )
  => /\ Len(c.events) = 2
     /\ c.events[1].kind = "down" /\ c.events[1].Version = cat[Len(cat)].Version
     /\ VersionAt(Len(ledger)) = (IF Len(cat) = 1 THEN 0 ELSE cat[Len(cat) - 1].Version)
     /\ Len(cat) = 1 => DescriptionAt(Len(ledger)) = NoDescription

C4_PartialCount ==
  \A r \in Runners :
    LET c == call[r]
        cat == migrations[r] IN
    ( /\ c.op = "Up" /\ c.done /\ ~c.err /\ c.len0 = 0
      /\ AllUp(cat) /\ 0 < c.n /\ c.n <= Len(cat) )
    => /\ NumActs(c) = c.n
       /\ Len(c.events) = 2 * c.n
       /\ \A j \in 1 .. c.n :
            /\ c.events[2 * j - 1].kind = "up"
            /\ c.events[2 * j - 1].Version = cat[j].Version
            /\ \A m \in 1 .. Len(cat) : m > j => cat[j].Version < cat[m].Version
       /\ Len(ledger) = c.n
       /\ VersionAt(Len(ledger)) = cat[c.n].Version

C4_Witness ==
  \E r \in Runners :
    LET c == call[r] IN
    /\ c.op = "Up" /\ c.done /\ ~c.err /\ c.len0 = 0
    /\ Len(migrations[r]) = 3 /\ AllUp(migrations[r]) /\ c.n = 2
    /\ NumActs(c) = 2 /\ Len(ledger) = 2 /\ ~c.sorted0

\* C5: Version returns the version and description of the most recently
\* inserted record, whatever versions earlier records hold.
C5_LatestWins ==
  \A r \in Runners :
    (call[r].op = "Version" /\ ~call[r].fault)
    => /\ ~call[r].err
       /\ call[r].retV = VersionAt(call[r].len0)
       /\ call[r].retD = DescriptionAt(call[r].len0)

C5_Witness ==
  \E r \in Runners :
    /\ call[r].op = "Version" /\ ~call[r].fault
    /\ call[r].len0 = Len(ledger)
    /\ \E k \in 1 .. Len(ledger) : ledger[k].Version > call[r].retV
    /\ call[r].retD # NoDescription

\* C6: the ledger is append-only: every step leaves the old ledger as a
\* prefix of the new one.
C6_AppendOnly ==
  [][ /\ Len(ledger') >= Len(ledger)
      /\ SubSeq(ledger', 1, Len(ledger)) = ledger ]_vars

C6_Witness ==
  \E r \in Runners :
    /\ call[r].op = "Down" /\ NumRecs(call[r]) >= 2
    /\ call[r].len0 >= 2
    /\ Len(ledger) = call[r].len0 + NumRecs(call[r])

\* C7: a failing action ends the call at once with the error: it is the
\* last event, the failed step writes no record, the records of the steps
\* before it stay in the ledger; a failing initial read of the current
\* version ends Down before any action or record.
C7_AbortOnFailure ==
  \A r \in Runners :
    LET c == call[r] IN
    c.op \in {"Up", "Down"} =>
      /\ \A k \in ActIdx(c) :
           ~c.events[k].ok =>
             /\ k = Len(c.events)
             /\ c.done /\ c.err /\ pc[r] = "idle"
             /\ Len(ledger) = c.len0 + NumRecs(c)
             /\ \A j \in OkRecIdx(c) :
                  ledger[RecPos(c, j)] =
                    versionRecord(c.events[j].Version, c.events[j].Description)
      /\ (c.op = "Down" /\ c.fault /\ \A k \in 1 .. Len(c.events) : c.events[k].ok)
           => /\ c.done /\ c.err /\ pc[r] = "idle"
              /\ c.events = <<>>
              /\ Len(ledger) = c.len0

C7_Witness ==
  \E r \in Runners :
    LET c == call[r] IN
    /\ c.op \in {"Up", "Down"} /\ c.done /\ c.err
    /\ Len(c.events) = 3 /\ ~c.events[3].ok /\ IsAct(c.events[3])
    /\ Len(ledger) = c.len0 + 1
    /\ Len(migrations[r]) = 3

\* the definition of runner r's catalog that has the given version
DefOf(r, version) ==
  CHOOSE m \in {migrations[r][k] : k \in 1 .. Len(migrations[r])} : m.Version = version

\* C8: Up invokes and records nothing for a definition without forward
\* action, Down nothing for one without backward action, and a call in
\* which nothing fails returns no error.
C8_SkipSemantics ==
  \A r \in Runners :
    LET c == call[r]
        cat == migrations[r] IN
    c.op \in {"Up", "Down"} =>
      /\ \A k \in 1 .. Len(c.events) :
           /\ c.op = "Up" => cat[c.events[k].idx + 1].Up
           /\ c.op = "Down" => cat[c.events[k].idx + 1].Down
           /\ c.op = "Up" => DefOf(r, c.events[k].Version).Up
      /\ ~c.fault => ~c.err

C8_Witness ==
  \E r \in Runners :
    LET c == call[r]
        cat == migrations[r] IN
    /\ c.op = "Up" /\ c.done /\ ~c.err /\ c.all /\ Len(cat) = 3
    /\ ~cat[2].Up
    /\ NumActs(c) = 2 /\ Len(ledger) = 2
    /\ ~Holds(cat[2].Version, Len(ledger))

\* C9: the forward actions of one Up call run in strictly ascending version
\* order, the backward actions of one Down call in strictly descending
\* order, whatever the registration order, and every action but the first
\* starts only after the record of the step before it was written.
C9_VersionOrder ==
  \A r \in Runners :
    LET c == call[r] IN
    c.op \in {"Up", "Down"} =>
      /\ \A j, k \in ActIdx(c) :
           j < k => IF c.op = "Up" THEN c.events[j].Version < c.events[k].Version
                    ELSE c.events[j].Version > c.events[k].Version
      /\ \A k \in ActIdx(c) :
           k > 1 => /\ c.events[k - 1].kind = "rec" /\ c.events[k - 1].ok
                    /\ ledger[RecPos(c, k - 1)].Version = c.events[k - 1].Version

C9_Witness ==
  \E r \in Runners :
    LET c == call[r] IN
    /\ c.op = "Up" /\ c.done /\ ~c.sorted0 /\ NumActs(c) = 3 /\ NumRecs(c) = 3
    /\ c.events[1].Version < c.events[3].Version
    /\ c.events[3].Version < c.events[5].Version

\* C10: when the lookup does not fail, Applied(v) is true exactly when some
\* record of the ledger, at any position, has version v.
C10_AppliedAnywhere ==
  \A r \in Runners :
    (call[r].op = "Applied" /\ ~call[r].fault)
    => (call[r].retB <=> Holds(call[r].n, call[r].len0))

C10_Witness ==
  \E r \in Runners :
    /\ call[r].op = "Applied" /\ ~call[r].fault /\ call[r].retB
    /\ call[r].len0 = Len(ledger) /\ Len(ledger) >= 2
    /\ ledger[Len(ledger)].Version # call[r].n
    /\ ledger[1].Version = call[r].n

\* C11: Version on a ledger without records returns version 0, the empty
\* description and no error.
C11_EmptyLedger ==
  \A r \in Runners :
    (call[r].op = "Version" /\ ~call[r].fault /\ call[r].len0 = 0)
    => /\ call[r].retV = 0
       /\ call[r].retD = NoDescription
       /\ ~call[r].err
       /\ call[r].done

C11_Witness ==
  \E r \in Runners :
    /\ call[r].op = "Version" /\ ~call[r].fault /\ call[r].len0 = 0
    /\ ledger = <<>> /\ collExist
    /\ call[r].retV = 0 /\ ~call[r].err

\* runner a's Up call was over, with all its records written, before
\* runner b's Up call began
Serial(a, b) ==
  /\ call[a].op = "Up" /\ call[a].done
  /\ call[b].op = "Up"
  /\ call[a].len0 + NumRecs(call[a]) <= call[b].len0

Duplicated(version) == Cardinality({k \in 1 .. Len(ledger) : ledger[k].Version = version}) >= 2

\* C12: with two runners calling Up on one ledger and nothing failing, a
\* forward action is invoked only after a lookup that saw no record of the
\* version, and a version gets a second record only when the two calls
\* overlap; calls that follow one another record every version at most once.
C12_RaceOnlyWhenOverlapping ==
  /\ \A r \in Runners :
       (call[r].op = "Up" /\ ~call[r].fault /\ pc[r] \in {"up_action", "up_record"})
       => ~Holds(migrations[r][frame[r].i + 1].Version, call[r].seen)
  /\ ( /\ faults = 0
       /\ \/ \E r \in Runners : call[r].op = "none"
          \/ Serial(1, 2)
          \/ Serial(2, 1) )
     => \A v \in Versions : ~Duplicated(v)

\* both runners saw the version as not applied, both invoked its forward
\* action and both appended a record for it
C12_Witness ==
  \E v \in Versions :
    /\ faults = 0
    /\ Duplicated(v)
    /\ \A r \in Runners :
         /\ call[r].op = "Up" /\ call[r].done /\ ~call[r].err
         /\ \E k \in OkRecIdx(call[r]) :
              /\ call[r].events[k].Version = v
              /\ call[r].events[k - 1].kind = "up" /\ call[r].events[k - 1].ok
              /\ call[r].events[k - 1].Version = v

\* C13 (as claimed): every forward action an Up call invokes belongs to a
\* definition whose version is greater than the current database version
\* at the moment of the call.
C13_OnlyNewer ==
  \A r \in Runners :
    call[r].op = "Up" =>
      \A k \in ActIdx(call[r]) :
        call[r].events[k].Version > VersionAt(call[r].len0)

\* C14: one record per successful step.  While no record write of an Up or
\* Down call has failed, the records the call appended are as many as its
\* actions that returned success (less the one whose record is still to be
\* written), and they are all the ledger gained; each record appended by Up
\* follows the successful forward action of the same catalog entry and
\* carries that entry's version and description, so a skipped entry appends
\* nothing.
OkActIdx(c) == {k \in ActIdx(c) : c.events[k].ok}
RecFailed(c) == \E k \in 1 .. Len(c.events) : c.events[k].kind = "rec" /\ ~c.events[k].ok
C14_OneRecordPerStep ==
  \A r \in Runners :
    (call[r].op \in {"Up", "Down"} /\ ~RecFailed(call[r])) =>
      LET c == call[r]
          pending == IF pc[r] \in {"up_record", "down_record"} THEN 1 ELSE 0 IN
      /\ NumRecs(c) = Cardinality(OkActIdx(c)) - pending
      /\ Len(ledger) = c.len0 + NumRecs(c)
      /\ c.op = "Up" =>
           \A k \in OkRecIdx(c) :
             LET migration == migrations[r][c.events[k].idx + 1] IN
             /\ k > 1
             /\ c.events[k - 1].kind = "up"
             /\ c.events[k - 1].ok
             /\ c.events[k - 1].idx = c.events[k].idx
             /\ migration.Up
             /\ ledger[RecPos(c, k)] =
                  versionRecord(migration.Version, migration.Description)

\* an Up that applied two entries and skipped a third
C14_Witness ==
  \E r \in Runners :
    /\ call[r].op = "Up"
    /\ call[r].done
    /\ ~call[r].fault
    /\ NumRecs(call[r]) = 2
    /\ Len(migrations[r]) = 3
    /\ Len(ledger) = call[r].len0 + 2
    /\ ledger[Len(ledger)].Description # NoDescription

\* C15: the effective step count n' of Up(n) and Down(n) is n when
\* 0 < n <= len(catalog) and len(catalog) otherwise.  A call invokes at most
\* n' actions, at most one per catalog entry; skipped entries do not count,
\* so a call in which nothing fails performs exactly the first n' eligible
\* entries of its walk, or all of them when fewer than n' are eligible.
NPrime(n, len) == IF 0 < n /\ n <= len THEN n ELSE len
\* 0-based positions of the entries the walk of call c does not skip
Eligible(c, cat) ==
  {i \in 0 .. Len(cat) - 1 :
     IF c.op = "Up" THEN cat[i + 1].Up /\ ~Holds(cat[i + 1].Version, c.len0)
     ELSE cat[i + 1].Down /\ cat[i + 1].Version <= VersionAt(c.len0)}
\* how many eligible positions the walk meets before position i
Before(c, cat, i) ==
  Cardinality({j \in Eligible(c, cat) : IF c.op = "Up" THEN j < i ELSE j > i})
ActPositions(c) == {c.events[k].idx : k \in ActIdx(c)}
C15_StepCount ==
  \A r \in Runners :
    call[r].op \in {"Up", "Down"} =>
      LET c == call[r]
          cat == migrations[r]
          np == NPrime(c.n, Len(cat)) IN
      /\ pc[r] # "idle" => frame[r].n = np
      /\ NumActs(c) <= np
      /\ \A j, k \in ActIdx(c) : j # k => c.events[j].idx # c.events[k].idx
      /\ (c.done /\ ~c.fault) =>
           ActPositions(c) = {i \in Eligible(c, cat) : Before(c, cat, i) < np}

\* Up(1) over three entries: the first is recorded, the second has no
\* forward action, the third is the one performed
C15_Witness ==
  \E r \in Runners :
    /\ call[r].op = "Up"
    /\ call[r].n = 1
    /\ call[r].done
    /\ ~call[r].fault
    /\ Len(migrations[r]) = 3
    /\ Holds(migrations[r][1].Version, call[r].len0)
    /\ ~migrations[r][2].Up
    /\ ActPositions(call[r]) = {2}
    /\ NumRecs(call[r]) = 1

\* C16: Down reads the current version once, before its walk: the version it
\* compares against stays the latest record's version at the start of the
\* call, whatever the call appends.  The entries it reverts are met in
\* descending order, each has a backward action and a version not above that
\* version, and a call in which nothing fails reverts exactly the first n' of
\* them.  A record of the entry's own version is not needed.  On an empty
\* ledger with every catalog version above 0, Down invokes nothing and
\* writes nothing.
C16_DownEligibility ==
  \A r \in Runners :
    (call[r].op = "Down" /\ ~(call[r].done /\ call[r].events = <<>> /\ call[r].err)) =>
      LET c == call[r]
          cat == migrations[r]
          cur == VersionAt(c.len0) IN
      /\ c.retV = cur
      /\ pc[r] # "idle" => frame[r].currentVersion = cur
      /\ \A k \in ActIdx(c) :
           /\ cat[c.events[k].idx + 1].Down
           /\ c.events[k].Version <= cur
           /\ \A j \in ActIdx(c) : j < k => c.events[j].idx > c.events[k].idx
      /\ (c.done /\ ~c.fault) =>
           ActPositions(c) =
             {i \in 0 .. Len(cat) - 1 :
                /\ cat[i + 1].Down
                /\ cat[i + 1].Version <= cur
                /\ Cardinality({j \in i + 1 .. Len(cat) - 1 :
                                  cat[j + 1].Down /\ cat[j + 1].Version <= cur})
                     < NPrime(c.n, Len(cat))}
      /\ (c.len0 = 0 /\ \A i \in 1 .. Len(cat) : cat[i].Version > 0) =>
           /\ c.events = <<>>
           /\ ledger = <<>>

\* after SetVersion alone, Down reverts two entries; one of them has no
\* record of its version when the call starts, and the second is reverted
\* although the latest record is by then below the version read at the start
C16_Witness ==
  \E r \in Runners :
    /\ call[r].op = "Down"
    /\ prev[r].op = "SetVersion"
    /\ call[r].len0 = 1
    /\ call[r].done
    /\ ~call[r].fault
    /\ NumActs(call[r]) = 2
    /\ \E k \in ActIdx(call[r]) : ~Holds(call[r].events[k].Version, call[r].len0)
    /\ \A i \in 1 .. Len(migrations[r]) : migrations[r][i].Version > 0
    /\ VersionAt(Len(ledger)) < VersionAt(call[r].len0)

\* Down on an empty ledger, every catalog version above 0
C16_WitnessEmpty ==
  \E r \in Runners :
    /\ call[r].op = "Down"
    /\ call[r].len0 = 0
    /\ call[r].done
    /\ ~call[r].fault
    /\ Complete(migrations[r])
    /\ Len(migrations[r]) = 2
    /\ \A i \in 1 .. Len(migrations[r]) : migrations[r][i].Version > 0

\* C17: Applied answers false whenever its lookup fails.  So when, during an
\* Up call, the lookup fails for a version that has a record and a forward
\* action, Up goes on to invoke that forward action again; when neither the
\* action nor the record write fails, the call returns no error and the
\* ledger holds a second record of the version.
EventFailed(c) == \E k \in 1 .. Len(c.events) : ~c.events[k].ok
C17_LookupFailureReapplies ==
  \A r \in Runners :
    LET c == call[r] IN
    /\ (c.op = "Applied" /\ c.fault) => (~c.retB /\ ~c.err)
    /\ c.op = "Up" =>
         \A v \in c.lookupFailed :
           (Holds(v, c.len0) /\ DefOf(r, v).Up) =>
             /\ \/ pc[r] = "up_action" /\ migrations[r][frame[r].i + 1].Version = v
                \/ \E k \in ActIdx(c) : c.events[k].Version = v
             /\ (c.done /\ ~EventFailed(c)) => (~c.err /\ Duplicated(v))

\* a finished Up that met a failed lookup for a recorded version, and an
\* Applied call whose lookup failed for a recorded version
C17_Witness ==
  \E r \in Runners :
    /\ call[r].op = "Up"
    /\ call[r].done
    /\ ~call[r].err
    /\ \E v \in call[r].lookupFailed :
         /\ Holds(v, call[r].len0)
         /\ Duplicated(v)
         /\ \E k \in OkActIdx(call[r]) : call[r].events[k].Version = v

C17_WitnessApplied ==
  \E r \in Runners :
    /\ call[r].op = "Applied"
    /\ call[r].fault
    /\ Holds(call[r].n, call[r].len0)
    /\ ~call[r].retB

\* C18: resumability.  When an Up(ALL) was aborted by the failing forward
\* action of the entry of version vN and nothing else has failed, the next
\* Up(ALL) invokes first the forward action of vN, then those of the
\* entries above vN that have one and no record, and none of an entry
\* recorded before the abort.  When a Down(ALL) was aborted by the failing
\* backward action of vN, the next Down(ALL) invokes first the backward
\* action of vN and none of an entry above vN, which are the ones reverted
\* before the abort.
Resumes(r, op) ==
  /\ prev[r].op = op
  /\ prev[r].all
  /\ prev[r].err
  /\ prev[r].failV >= 0
  /\ faults = 1
  /\ call[r].op = op
  /\ call[r].all
  /\ ~call[r].fault
ActVersions(c) == {c.events[k].Version : k \in ActIdx(c)}
C18_Resumable ==
  \A r \in Runners :
    LET c == call[r]
        cat == migrations[r]
        vN == prev[r].failV IN
    /\ Resumes(r, "Up") =>
         /\ c.len0 = prev[r].len0 + prev[r].acts - 1
         /\ \A v \in ActVersions(c) : v >= vN /\ ~Holds(v, c.len0)
         /\ c.events # <<>> => c.events[1].Version = vN
         /\ c.done =>
              ActVersions(c) =
                {vN} \cup {cat[i].Version : i \in {j \in 1 .. Len(cat) :
                              cat[j].Version > vN /\ cat[j].Up
                              /\ ~Holds(cat[j].Version, c.len0)}}
    /\ Resumes(r, "Down") =>
         /\ c.len0 = prev[r].len0 + prev[r].acts - 1
         /\ \A v \in ActVersions(c) : v <= vN
         /\ c.events # <<>> => c.events[1].Version = vN
         /\ c.done => vN \in ActVersions(c)

\* the aborted Up(ALL) had recorded a step before it failed, and the next
\* Up(ALL) has finished
C18_Witness ==
  \E r \in Runners :
    /\ Resumes(r, "Up")
    /\ prev[r].acts >= 2
    /\ call[r].done
    /\ prev[r].failV \in ActVersions(call[r])
    /\ Len(ledger) > call[r].len0

\* the aborted Down(ALL) had reverted a step before it failed, and the next
\* Down(ALL) has finished
C18_WitnessDown ==
  \E r \in Runners :
    /\ Resumes(r, "Down")
    /\ prev[r].acts >= 2
    /\ call[r].done
    /\ prev[r].failV \in ActVersions(call[r])
    /\ Len(ledger) > call[r].len0

\* C19: Applied is monotonic.  A version that has a record keeps answering
\* true to an Applied whose lookup does not fail, in every later state,
\* also after Down has invoked the version's backward action; so no Up call
\* invokes the forward action of a version that had a record when the call
\* began, unless the lookup for it failed, whoever wrote the record.
HadRecord(c) == {v \in Versions : Holds(v, c.len0)}
UpNeverReapplies ==
  \A r \in Runners :
    call[r].op = "Up" =>
      (ActVersions(call[r]) \cap HadRecord(call[r])) \subseteq call[r].lookupFailed
RevertedStillApplied ==
  \A r \in Runners :
    call[r].op = "Down" =>
      \A v \in ActVersions(call[r]) \cap HadRecord(call[r]) :
        AppliedResult(ledger, collExist, v, "ok").applied
DownAllTwice(r) ==
  /\ prev[r].op = "Down"
  /\ prev[r].all
  /\ ~prev[r].fault
  /\ call[r].op = "Down"
  /\ call[r].all
  /\ ~call[r].fault
C20_DownAllTwice ==
  \A r \in Runners :
    DownAllTwice(r) => (call[r].events = <<>> /\ Len(ledger) = call[r].len0)

\* the second Down(ALL) acts only on a first catalog entry of version 0,
\* the version of the record written after reverting the first entry
C20_OnlyVersionZero ==
  \A r \in Runners :
    DownAllTwice(r) =>
      /\ ActVersions(call[r]) \subseteq {0}
      /\ \A k \in ActIdx(call[r]) : call[r].events[k].idx = 0
      /\ (\A i \in 1 .. Len(migrations[r]) :
            migrations[r][i].Down => migrations[r][i].Version > 0)
           => (call[r].events = <<>> /\ Len(ledger) = call[r].len0)

\* a first Down(ALL) that reverted something, then a finished second one
C20_Quiet ==
  \E r \in Runners :
    /\ DownAllTwice(r)
    /\ prev[r].acts >= 1
    /\ call[r].done
    /\ call[r].events = <<>>
====
